---- MODULE Spec2Model ----
(***************************************************************************)
(* spanner-truncate: the schema filter, the table tree, the per-table      *)
(* deleter and the deletion coordinator, as a state machine.               *)
(*                                                                         *)
(* A run is main -> run -> newCoordinator -> coordinator.start ->          *)
(* waitCompleted.  The goroutines of a run are: the coordinator loop, one  *)
(* row-count updater per table, one deleteRows goroutine per spawn, and    *)
(* the caller blocked in waitCompleted.  The database is modelled by the   *)
(* number of rows each table holds.  Besides whole runs, the unit tests'   *)
(* calls of filterTableSchemas and findDeletableTables are modelled: a     *)
(* test starts from a descriptor list and statuses of its choice and makes *)
(* one call.                                                               *)
(***************************************************************************)
EXTENDS Integers, Sequences, FiniteSets, Bags, TLC

(***************************************************************************)
(* Bounds of the model.                                                    *)
(***************************************************************************)
\* Rows a table holds at most when the run starts.
MaxRows == 1
\* deleteRows goroutines alive at the same time (the tick waits above it).
MaxTasks == 2
\* Longest target or exclude list handed to the filter by a test.
MaxList == 2
\* Longest name list handed to one half of the filter by a test.
MaxNames == 3
\* Largest row count a query of the deleter under test returns.
MaxCount == 3
\* Queries the deleter under test gets answered.
MaxSamples == 3

(***************************************************************************)
(* Enumerations of the program.                                            *)
(***************************************************************************)
deleteActionUndefined == 0
deleteActionCascadeDelete == 1
deleteActionNoAction == 2

statusAnalyzing == 0
statusWaiting == 1
statusDeleting == 2
statusCascadeDeleting == 3
statusCompleted == 4

Status == {statusAnalyzing, statusWaiting, statusDeleting,
           statusCascadeDeleting, statusCompleted}

\* A nil *table, as stored by a map lookup that misses.
NilTable == "<nil>"

(***************************************************************************)
(* Descriptors.                                                            *)
(***************************************************************************)
tableSchema(n, p, a, r) ==
    [tableName |-> n, parentTableName |-> p,
     parentOnDeleteAction |-> a, referencedBy |-> r]

indexSchema(n, b, p) ==
    [indexName |-> n, baseTableName |-> b, parentTableName |-> p]

Root(n) == tableSchema(n, "", deleteActionUndefined, <<>>)
Cascade(n, p) == tableSchema(n, p, deleteActionCascadeDelete, <<>>)
NoAction(n, p) == tableSchema(n, p, deleteActionNoAction, <<>>)
RefBy(s, r) == [s EXCEPT !.referencedBy = r]

\* The databases and command lines the program is started on.  db is what the
\* information schema holds; tables and excludeTables are the -t and -e lists.
Scenario(db, ix, t, e) == [db |-> db, indexes |-> ix, tables |-> t, excludeTables |-> e]

Scenarios ==
    << \* 1: flat
       Scenario(<<Root("A"), Root("B")>>, <<>>, <<>>, <<>>),
       \* 2: A <- B no action
       Scenario(<<Root("A"), NoAction("B", "A")>>, <<>>, <<>>, <<>>),
       \* 3: A referenced by B
       Scenario(<<RefBy(Root("A"), <<"B">>), Root("B")>>, <<>>, <<>>, <<>>),
       \* 4: A <- B cascade, B <- C no action
       Scenario(<<Root("A"), Cascade("B", "A"), NoAction("C", "B")>>, <<>>, <<>>, <<>>),
       \* 5: A <- B cascade, B has a global index
       Scenario(<<Root("A"), Cascade("B", "A")>>, <<indexSchema("Bi", "B", "")>>, <<>>, <<>>),
       \* 6: A and B reference each other
       Scenario(<<RefBy(Root("A"), <<"B">>), RefBy(Root("B"), <<"A">>)>>, <<>>, <<>>, <<>>),
       \* 7: only the child is a target: its parent is not in the list
       Scenario(<<Root("B"), Cascade("C", "B")>>, <<>>, <<"C">>, <<>>),
       \* 8: -t and -e together
       Scenario(<<Root("A"), Root("B")>>, <<>>, <<"A">>, <<"B">>),
       \* 9: -e on a cascade child
       Scenario(<<Root("A"), Cascade("B", "A"), Root("C")>>, <<>>, <<>>, <<"B">>),
       \* 10: A <- B <- C, all cascade
       Scenario(<<Root("A"), Cascade("B", "A"), Cascade("C", "B")>>, <<>>, <<>>, <<>>),
       \* 11: A <- B cascade, B <- C no action, C <- D cascade
       Scenario(<<Root("A"), Cascade("B", "A"), NoAction("C", "B"), Cascade("D", "C")>>,
                <<>>, <<>>, <<>>),
       \* 12: A <- B cascade, C <- D cascade, D references B
       Scenario(<<Root("A"), RefBy(Cascade("B", "A"), <<"D">>), Root("C"), Cascade("D", "C")>>,
                <<>>, <<>>, <<>>),
       \* 13: A and B reference each other, C is unrelated
       Scenario(<<RefBy(Root("A"), <<"B">>), RefBy(Root("B"), <<"A">>), Root("C")>>,
                <<>>, <<>>, <<>>),
       \* 14: A referenced by B, -e on B
       Scenario(<<RefBy(Root("A"), <<"B">>), Root("B")>>, <<>>, <<>>, <<"B">>),
       \* 15: A <- B no action, -e on B
       Scenario(<<Root("A"), NoAction("B", "A")>>, <<>>, <<>>, <<"B">>),
       \* 16: A <- B <- C, all cascade, -e on B
       Scenario(<<Root("A"), Cascade("B", "A"), Cascade("C", "B")>>, <<>>, <<>>, <<"B">>),
       \* 17: A <- B cascade, A has a global index and B an index interleaved
       \* in B
       Scenario(<<Root("A"), Cascade("B", "A")>>,
                <<indexSchema("Ai", "A", ""), indexSchema("Bi", "B", "B")>>,
                <<>>, <<>>)
    >>

\* The scenarios whole runs are explored on.
RunScenarios == (1..10) \cup (14..16)

Range(s) == {s[i] : i \in 1..Len(s)}

NamesOf(ss) == {ss[i].tableName : i \in 1..Len(ss)}

(***************************************************************************)
(* Schema filter (truncate package).                                       *)
(***************************************************************************)
isCascadeDeletable(t) == t.parentOnDeleteAction = deleteActionCascadeDelete

\* targetFilterTableSchemas without its return on an empty list.
targetFilterTableSchemasAlways(tables, targetTables) ==
    SelectSeq(tables, LAMBDA t : t.tableName \in Range(targetTables))

targetFilterTableSchemas(tables, targetTables) ==
    IF Len(targetTables) = 0 THEN tables
    ELSE SelectSeq(tables, LAMBDA t : t.tableName \in Range(targetTables))

\* The round adding the parent of every excluded table, whatever its action.
excludeParentsAnyAction(tables, excludes) ==
    {tables[i].parentTableName : i \in
        {j \in 1..Len(tables) :
            /\ tables[j].tableName \in excludes
            /\ tables[j].parentTableName # ""
            /\ tables[j].parentTableName \notin excludes}}

\* One round of the loop that adds the parents of excluded cascade tables.
excludeParents(tables, excludes) ==
    {tables[i].parentTableName : i \in
        {j \in 1..Len(tables) :
            /\ tables[j].tableName \in excludes
            /\ isCascadeDeletable(tables[j])
            /\ tables[j].parentTableName \notin excludes}}

\* The exclude list as it is, without any parent.
excludeClosureNone(tables, excludes) == excludes

RECURSIVE excludeClosure(_, _)
excludeClosure(tables, excludes) ==
    LET ps == excludeParents(tables, excludes)
    IN IF ps = {} THEN excludes ELSE excludeClosure(tables, excludes \cup ps)

excludeFilterTableSchemas(tables, excludeTables) ==
    IF Len(excludeTables) = 0 THEN tables
    ELSE LET excludes == excludeClosure(tables, Range(excludeTables))
         IN SelectSeq(tables, LAMBDA t : t.tableName \notin excludes)

\* filterTableSchemas without its check of the two lists against each other.
filterTableSchemasUnchecked(tables, targetTables, excludeTables) ==
    IF Len(targetTables) > 0
    THEN [tables |-> targetFilterTableSchemas(tables, targetTables), err |-> FALSE]
    ELSE [tables |-> excludeFilterTableSchemas(tables, excludeTables), err |-> FALSE]

\* The result pair (tables, err); tables is <<>> for Go's nil.
filterTableSchemas(tables, targetTables, excludeTables) ==
    LET isExclude == Len(excludeTables) > 0
        isTarget == Len(targetTables) > 0
    IN  IF isTarget /\ isExclude THEN [tables |-> <<>>, err |-> TRUE]
        ELSE IF isTarget
             THEN [tables |-> targetFilterTableSchemas(tables, targetTables), err |-> FALSE]
        ELSE IF isExclude
             THEN [tables |-> excludeFilterTableSchemas(tables, excludeTables), err |-> FALSE]
        ELSE [tables |-> tables, err |-> FALSE]

(***************************************************************************)
(* Table tree (coordinator).  A table is named by its tableName; ss is the *)
(* descriptor list handed to newCoordinator and st the deleters' status.   *)
(***************************************************************************)
\* The names of the tables of one level of the tree; the childTables of a
\* table t are constructTableTree(ss, t).
constructTableTree(originals, parentTableName) ==
    LET lvl == SelectSeq(originals, LAMBDA o : o.parentTableName = parentTableName)
    IN [i \in 1..Len(lvl) |-> lvl[i].tableName]

childTables(ss, t) == constructTableTree(ss, t)

\* coordinator.tables as newCoordinator leaves it.
Roots(ss) == constructTableTree(ss, "")

schemaOf(ss, t) == ss[CHOOSE i \in 1..Len(ss) : ss[i].tableName = t]

parentOnDeleteAction(ss, t) == schemaOf(ss, t).parentOnDeleteAction

\* table.referencedBy: tableMap[referencing] for each name, nil on a miss.
referencedBy(ss, t) ==
    LET r == schemaOf(ss, t).referencedBy
    IN [i \in 1..Len(r) |-> IF r[i] \in NamesOf(ss) THEN r[i] ELSE NilTable]

RECURSIVE flattenTables(_, _)
flattenTables(ss, tables) ==
    IF tables = <<>> THEN <<>>
    ELSE <<Head(tables)>> \o flattenTables(ss, childTables(ss, Head(tables)))
            \o flattenTables(ss, Tail(tables))

\* "true", "false", or "panic" when a nil referencing table is dereferenced.
RECURSIVE isDeletable(_, _, _)
RECURSIVE isDeletableChildren(_, _, _, _)
RECURSIVE isDeletableReferencing(_, _, _)

\* isDeletable's loop over referencedBy with its status check left out.
isDeletableReferencingUnchecked(st, refs, i) == "true"

\* isDeletable's loop over childTables with the no-action check left out.
RECURSIVE isDeletableChildrenNoActionUnchecked(_, _, _, _)
isDeletableChildrenNoActionUnchecked(ss, st, cs, i) ==
    IF i > Len(cs) THEN "true"
    ELSE LET r == isDeletable(ss, st, cs[i])
         IN IF r = "true"
            THEN isDeletableChildrenNoActionUnchecked(ss, st, cs, i + 1) ELSE r

\* isDeletable's loop over childTables with the recursive call left out.
RECURSIVE isDeletableChildrenShallow(_, _, _, _)
isDeletableChildrenShallow(ss, st, cs, i) ==
    IF i > Len(cs) THEN "true"
    ELSE IF /\ parentOnDeleteAction(ss, cs[i]) = deleteActionNoAction
            /\ st[cs[i]] # statusCompleted
         THEN "false"
    ELSE isDeletableChildrenShallow(ss, st, cs, i + 1)

\* isDeletable's loop over childTables refusing a no-action child whatever
\* its status.
RECURSIVE isDeletableChildrenNoActionRefused(_, _, _, _)
isDeletableChildrenNoActionRefused(ss, st, cs, i) ==
    IF i > Len(cs) THEN "true"
    ELSE IF parentOnDeleteAction(ss, cs[i]) = deleteActionNoAction THEN "false"
    ELSE LET r == isDeletable(ss, st, cs[i])
         IN IF r = "true"
            THEN isDeletableChildrenNoActionRefused(ss, st, cs, i + 1) ELSE r

isDeletableReferencing(st, refs, i) ==
    IF i > Len(refs) THEN "true"
    ELSE IF refs[i] = NilTable THEN "panic"
    ELSE IF st[refs[i]] # statusCompleted THEN "false"
    ELSE isDeletableReferencing(st, refs, i + 1)

isDeletableChildren(ss, st, cs, i) ==
    IF i > Len(cs) THEN "true"
    ELSE IF /\ parentOnDeleteAction(ss, cs[i]) = deleteActionNoAction
            /\ st[cs[i]] # statusCompleted
         THEN "false"
    ELSE LET r == isDeletable(ss, st, cs[i])
         IN IF r = "true" THEN isDeletableChildren(ss, st, cs, i + 1) ELSE r

isDeletable(ss, st, t) ==
    LET c == isDeletableChildren(ss, st, childTables(ss, t), 1)
    IN IF c = "true" THEN isDeletableReferencing(st, referencedBy(ss, t), 1) ELSE c

\* findDeletableTables going on into the children of a table it selected.
RECURSIVE findDeletableTablesDeep(_, _, _)
findDeletableTablesDeep(ss, st, tables) ==
    IF tables = <<>> THEN [deletable |-> <<>>, panic |-> FALSE]
    ELSE LET table == Head(tables)
             s == st[table]
             d == isDeletable(ss, st, table)
             sub == findDeletableTablesDeep(ss, st, childTables(ss, table))
             rest == findDeletableTablesDeep(ss, st, Tail(tables))
         IN IF s = statusDeleting \/ s = statusCompleted THEN rest
            ELSE IF d = "panic" THEN [deletable |-> <<>>, panic |-> TRUE]
            ELSE [deletable |-> (IF d = "true" THEN <<table>> ELSE <<>>)
                                  \o sub.deletable \o rest.deletable,
                  panic |-> sub.panic \/ rest.panic]

\* findDeletableTables selecting a deletable table only when it has no
\* child, and walking the children of the others.
RECURSIVE findDeletableTablesLeavesFirst(_, _, _)
findDeletableTablesLeavesFirst(ss, st, tables) ==
    IF tables = <<>> THEN [deletable |-> <<>>, panic |-> FALSE]
    ELSE LET table == Head(tables)
             s == st[table]
             d == isDeletable(ss, st, table)
             sub == findDeletableTablesLeavesFirst(ss, st, childTables(ss, table))
             rest == findDeletableTablesLeavesFirst(ss, st, Tail(tables))
         IN IF s = statusDeleting \/ s = statusCompleted THEN rest
            ELSE IF d = "panic" THEN [deletable |-> <<>>, panic |-> TRUE]
            ELSE IF d = "true" /\ Len(childTables(ss, table)) = 0
                 THEN [deletable |-> <<table>> \o rest.deletable, panic |-> rest.panic]
            ELSE IF sub.panic THEN sub
            ELSE [deletable |-> sub.deletable \o rest.deletable, panic |-> rest.panic]

\* [deletable |-> the tables found, panic |-> whether the walk panicked].
RECURSIVE findDeletableTables(_, _, _)
findDeletableTables(ss, st, tables) ==
    IF tables = <<>> THEN [deletable |-> <<>>, panic |-> FALSE]
    ELSE LET table == Head(tables)
             s == st[table]
             d == isDeletable(ss, st, table)
             sub == IF Len(childTables(ss, table)) > 0
                    THEN findDeletableTables(ss, st, childTables(ss, table))
                    ELSE [deletable |-> <<>>, panic |-> FALSE]
             rest == findDeletableTables(ss, st, Tail(tables))
         IN IF s = statusDeleting \/ s = statusCompleted THEN rest
            ELSE IF d = "panic" THEN [deletable |-> <<>>, panic |-> TRUE]
            ELSE IF d = "true"
                 THEN [deletable |-> <<table>> \o rest.deletable, panic |-> rest.panic]
            ELSE IF sub.panic THEN sub
            ELSE [deletable |-> sub.deletable \o rest.deletable, panic |-> rest.panic]

RECURSIVE isAllTablesDeleted(_, _, _)
isAllTablesDeleted(ss, st, tables) ==
    IF tables = <<>> THEN TRUE
    ELSE /\ st[Head(tables)] = statusCompleted
         /\ isAllTablesDeleted(ss, st, childTables(ss, Head(tables)))
         /\ isAllTablesDeleted(ss, st, Tail(tables))

RECURSIVE isAnyTableDeleting(_, _, _)
isAnyTableDeleting(ss, st, tables) ==
    IF tables = <<>> THEN FALSE
    ELSE \/ st[Head(tables)] = statusDeleting
         \/ st[Head(tables)] = statusCascadeDeleting
         \/ isAnyTableDeleting(ss, st, childTables(ss, Head(tables)))
         \/ isAnyTableDeleting(ss, st, Tail(tables))

\* deleter.parentDeletionStarted on one status.
parentDeletionStarted(s) == statusCascadeDeleting

\* cascadeDelete marking the tables it is given and none below them.
RECURSIVE cascadeDeleteShallow(_, _, _)
cascadeDeleteShallow(ss, st, tables) ==
    IF tables = <<>> THEN st
    ELSE cascadeDeleteShallow(ss,
             [st EXCEPT ![Head(tables)] = parentDeletionStarted(st[Head(tables)])],
             Tail(tables))

\* The status map after cascadeDelete(tables).
RECURSIVE cascadeDelete(_, _, _)
cascadeDelete(ss, st, tables) ==
    IF tables = <<>> THEN st
    ELSE LET table == Head(tables)
             st1 == [st EXCEPT ![table] = parentDeletionStarted(st[table])]
             st2 == cascadeDelete(ss, st1, childTables(ss, table))
         IN cascadeDelete(ss, st2, Tail(tables))

(***************************************************************************)
(* Schema filter by lineages (the other excludeFilterTableSchemas of the   *)
(* truncate package).                                                      *)
(***************************************************************************)
isRoot(t) == t.parentTableName = ""

\* Every table that is no root, whatever its parent's ON DELETE action.
interleavedChildren(tables) == {j \in 1..Len(tables) : ~isRoot(tables[j])}

\* The tables constructTableLineages relates to a parent: those that are no
\* root and are deleted in cascade with their parent.
cascadeChildren(tables) ==
    {j \in 1..Len(tables) : ~isRoot(tables[j]) /\ isCascadeDeletable(tables[j])}

\* parentRelation of constructTableLineages: what tableMap holds under the
\* parent's name, which is nil when the list has no table of that name.
parentRelation(tables) ==
    [n \in {tables[j].tableName : j \in cascadeChildren(tables)} |->
        LET p == schemaOf(tables, n).parentTableName
        IN IF p \in NamesOf(tables) THEN p ELSE NilTable]

\* childRelation of constructTableLineages, by parent name.
childRelation(tables) ==
    [p \in {tables[j].parentTableName : j \in cascadeChildren(tables)} |->
        SelectSeq(tables, LAMBDA t : /\ ~isRoot(t)
                                     /\ isCascadeDeletable(t)
                                     /\ t.parentTableName = p)]

\* findAncestors; reading table.tableName of a nil table panics.
RECURSIVE findAncestors(_, _, _)
findAncestors(table, pr, ancestors) ==
    IF table = NilTable THEN [ancestors |-> ancestors, panic |-> TRUE]
    ELSE IF table \in DOMAIN pr
         THEN findAncestors(pr[table], pr, Append(ancestors, pr[table]))
         ELSE [ancestors |-> ancestors, panic |-> FALSE]

RECURSIVE findDescendants(_, _, _)
RECURSIVE findDescendantsOf(_, _, _)
\* The loop of findDescendants over the children still to visit.
findDescendantsOf(children, cr, descendants) ==
    IF children = <<>> THEN descendants
    ELSE findDescendantsOf(Tail(children), cr,
             findDescendants(Head(children).tableName, cr,
                             Append(descendants, Head(children).tableName)))

findDescendants(table, cr, descendants) ==
    IF table \in DOMAIN cr THEN findDescendantsOf(cr[table], cr, descendants)
    ELSE descendants

\* One tableLineage per table, in the order of the list; panic tells that
\* building some lineage panicked.
constructTableLineages(tables) ==
    LET pr == parentRelation(tables)
        cr == childRelation(tables)
        lineage(t) ==
            LET a == findAncestors(t.tableName, pr, <<>>)
            IN [tableSchema |-> t, ancestors |-> a.ancestors, panic |-> a.panic,
                descendants |-> findDescendants(t.tableName, cr, <<>>)]
        ls == [i \in 1..Len(tables) |-> lineage(tables[i])]
    IN [lineages |-> ls, panic |-> \E i \in 1..Len(tables) : ls[i].panic]

\* The names isExclude holds once the ancestors of the excluded tables of
\* the list were added.
lineageExcludes(ls, excludes) ==
    excludes \cup UNION {Range(ls[i].ancestors) : i \in
                            {j \in 1..Len(ls) : ls[j].tableSchema.tableName \in excludes}}

\* The result (tables, panic) of the lineage variant of
\* excludeFilterTableSchemas.
excludeFilterTableSchemasByLineage(tables, excludeTables) ==
    IF Len(excludeTables) = 0 THEN [tables |-> tables, panic |-> FALSE]
    ELSE LET c == constructTableLineages(tables)
             isExclude == lineageExcludes(c.lineages, Range(excludeTables))
         IN IF c.panic THEN [tables |-> <<>>, panic |-> TRUE]
            ELSE [tables |-> SelectSeq(tables, LAMBDA t : t.tableName \notin isExclude),
                  panic |-> FALSE]

(***************************************************************************)
(* Deleter.                                                                *)
(***************************************************************************)
\* updateRowCount with the two counters taken for each other.
updateRowCountSwapped(d, count) ==
    [totalRows |-> count,
     remainedRows |-> IF d.remainedRows = 0 THEN count ELSE d.remainedRows,
     status |-> IF count = 0 THEN statusCompleted
                ELSE IF d.status = statusAnalyzing THEN statusWaiting
                ELSE d.status]

\* updateRowCount keeping the latest count as the total.
updateRowCountLatest(d, count) ==
    [totalRows |-> count,
     remainedRows |-> count,
     status |-> IF count = 0 THEN statusCompleted
                ELSE IF d.status = statusAnalyzing THEN statusWaiting
                ELSE d.status]

\* updateRowCount once the COUNT(*) query returned count, on the deleter
\* d = [status, totalRows, remainedRows].
updateRowCount(d, count) ==
    [totalRows |-> IF d.totalRows = 0 THEN count ELSE d.totalRows,
     remainedRows |-> count,
     status |-> IF count = 0 THEN statusCompleted
                ELSE IF d.status = statusAnalyzing THEN statusWaiting
                ELSE d.status]

\* A deleteRows that reports the table completed itself.
deleteRowsStatusCompleted(s) == statusCompleted

\* The first statement of deleteRows.
deleteRowsStatus(s) == statusDeleting

(***************************************************************************)
(* formatNumber.  A string is the sequence of its characters.              *)
(***************************************************************************)
Digits == <<"0", "1", "2", "3", "4", "5", "6", "7", "8", "9">>

\* fmt.Sprintf("%d", n)
RECURSIVE Sprintf_d(_)
Sprintf_d(n) ==
    IF n < 10 THEN <<Digits[n + 1]>>
    ELSE Sprintf_d(n \div 10) \o <<Digits[(n % 10) + 1]>>

\* fmt.Sprintf("%03d", n): the decimal digits, zeros in front up to three.
Sprintf_03d(n) ==
    LET d == Sprintf_d(n)
    IN IF Len(d) >= 3 THEN d
       ELSE [i \in 1..(3 - Len(d)) |-> "0"] \o d

\* The loop for num > 0: the groups of three digits, the lowest first.
RECURSIVE parts(_)
parts(num) ==
    IF num > 0 THEN <<num % 1000>> \o parts(num \div 1000) ELSE <<>>

\* The loop over parts[0 .. len(parts)-2], each put in front of s.
RECURSIVE joinParts(_, _)
joinParts(ps, i) ==
    IF i > Len(ps) - 1 THEN <<>>
    ELSE joinParts(ps, i + 1) \o <<",">> \o Sprintf_03d(ps[i])

\* formatNumber with the groups written by "%d".
formatNumberUnpadded(num) ==
    IF num < 1000 THEN Sprintf_d(num)
    ELSE LET ps == parts(num)
             RECURSIVE join(_)
             join(i) == IF i > Len(ps) - 1 THEN <<>>
                        ELSE join(i + 1) \o <<",">> \o Sprintf_d(ps[i])
         IN Sprintf_d(ps[Len(ps)]) \o join(1)

formatNumber(num) ==
    IF num < 1000 THEN Sprintf_d(num)
    ELSE LET ps == parts(num)
         IN Sprintf_d(ps[Len(ps)]) \o joinParts(ps, 1)

(***************************************************************************)
(* Database: rows per table.  A delete of all rows of a table removes the  *)
(* rows interleaved below it through ON DELETE CASCADE, and is rejected    *)
(* while a NO ACTION child or a referencing table still holds rows.        *)
(***************************************************************************)
RECURSIVE dbCascade(_, _)
dbCascade(db, t) ==
    LET cs == {db[i].tableName : i \in
                 {j \in 1..Len(db) : /\ db[j].parentTableName = t
                                     /\ isCascadeDeletable(db[j])}}
    IN {t} \cup UNION {dbCascade(db, c) : c \in cs}

dbRejects(db, r, t) ==
    \E u \in dbCascade(db, t) :
        \/ \E i \in 1..Len(db) :
              /\ db[i].parentTableName = u
              /\ db[i].parentOnDeleteAction = deleteActionNoAction
              /\ r[db[i].tableName] > 0
        \/ \E i \in 1..Len(schemaOf(db, u).referencedBy) :
              LET x == schemaOf(db, u).referencedBy[i]
              IN x \in NamesOf(db) /\ x \notin dbCascade(db, t) /\ r[x] > 0

\* Rows of an interleaved child exist only under rows of its parent.
dbConsistent(db, r) ==
    \A i \in 1..Len(db) :
        (db[i].parentTableName \in NamesOf(db) /\ r[db[i].tableName] > 0)
            => r[db[i].parentTableName] > 0

(***************************************************************************)
(* State.                                                                  *)
(***************************************************************************)
VARIABLES
    scenario,      \* index of the database and command line of this run
    pc,            \* where main / run / waitCompleted stands
    client,        \* the spanner client: "none", "open", "closed"
    schemas,       \* the descriptor list fetched and filtered by run
    status,        \* deleter.status per table
    totalRows,     \* deleter.totalRows per table
    remainedRows,  \* deleter.remainedRows per table
    rows,          \* the rows each table holds in the database
    updater,       \* the row-count goroutine per table: "off", "on",
                   \* "failed", "done"
    coord,         \* the coordinator goroutine: "off", "init", "loop",
                   \* "sendStall", "sendCtx"
    tasks,         \* bag of deleteRows goroutines
    ctxDone,       \* whether ctx was cancelled (interrupt or timeout)
    call           \* the call a unit test makes, and what it returned

vars == <<scenario, pc, client, schemas, status, totalRows, remainedRows,
          rows, updater, coord, tasks, ctxDone, call>>

db == Scenarios[scenario].db
indexes == Scenarios[scenario].indexes
optTables == Scenarios[scenario].tables
optExcludeTables == Scenarios[scenario].excludeTables
Names == NamesOf(db)

\* indexSchema.parentTableName blank: the index is a global index.
hasGlobalIndex(t) ==
    \E i \in 1..Len(indexes) :
        indexes[i].baseTableName = t /\ indexes[i].parentTableName = ""

NoCall == [fn |-> "none", returned |-> FALSE, ret |-> <<>>]

\* The program about to run main on one of the scenarios of S.
RunInitOn(S) ==
    /\ scenario \in S
    /\ pc = "main"
    /\ client = "none"
    /\ schemas = <<>>
    /\ status = [t \in Names |-> statusAnalyzing]
    /\ totalRows = [t \in Names |-> 0]
    /\ remainedRows = [t \in Names |-> 0]
    /\ rows \in [Names -> 0..MaxRows]
    /\ dbConsistent(db, rows)
    /\ updater = [t \in Names |-> "off"]
    /\ coord = "off"
    /\ tasks = EmptyBag
    /\ ctxDone = FALSE
    /\ call = NoCall

RunInit == RunInitOn(RunScenarios)

\* Sequences over S of length at most n.
RECURSIVE SeqsUpTo(_, _)
SeqsUpTo(S, n) ==
    IF n = 0 THEN {<<>>}
    ELSE LET shorter == SeqsUpTo(S, n - 1)
         IN shorter \cup {Append(q, x) : q \in shorter, x \in S}

\* A name no scenario uses for a table.
Unknown == "X"

\* A unit test about to call filterTableSchemas on a descriptor list.
TestFilterInit ==
    /\ scenario \in 1..Len(Scenarios)
    /\ pc = "test"
    /\ client = "none"
    /\ schemas = db
    /\ status = [t \in Names |-> statusAnalyzing]
    /\ totalRows = [t \in Names |-> 0]
    /\ remainedRows = [t \in Names |-> 0]
    /\ rows = [t \in Names |-> 0]
    /\ updater = [t \in Names |-> "off"]
    /\ coord = "off"
    /\ tasks = EmptyBag
    /\ ctxDone = FALSE
    /\ \E tt \in SeqsUpTo(Names \cup {Unknown}, MaxList) :
       \E et \in SeqsUpTo(Names \cup {Unknown}, MaxList) :
           call = [fn |-> "filterTableSchemas", targetTables |-> tt,
                   excludeTables |-> et, returned |-> FALSE, ret |-> <<>>]

\* A unit test about to call findDeletableTables on a tree whose deleters
\* it gave some status each.
TestFindInit ==
    /\ scenario \in 1..Len(Scenarios)
    /\ pc = "test"
    /\ client = "none"
    /\ schemas = db
    /\ status \in [Names -> Status]
    /\ totalRows = [t \in Names |-> 0]
    /\ remainedRows = [t \in Names |-> 0]
    /\ rows = [t \in Names |-> 0]
    /\ updater = [t \in Names |-> "off"]
    /\ coord = "off"
    /\ tasks = EmptyBag
    /\ ctxDone = FALSE
    /\ call = [fn |-> "findDeletableTables", returned |-> FALSE, ret |-> <<>>]

\* The descriptor lists the tests of the two halves of the filter are run
\* on: the lists of TestTargetFilterTableSchemas and
\* TestExcludeFilterTableSchemas, and lists mixing the two parent actions.
FilterLists ==
    << <<Root("Singers"), Cascade("Albums", "Singers"), Cascade("Songs", "Albums"),
         Root("t1"), Root("t2"), Root("t3")>>,
       <<Root("Singers"), Cascade("Albums", "Singers"), Cascade("Songs", "Albums"),
         Root("t4"), NoAction("t5", "t4"), NoAction("t6", "t5")>>,
       <<Root("A"), NoAction("B", "A"), Cascade("C", "B")>>,
       <<Root("A"), Cascade("B", "A"), NoAction("C", "B"), Cascade("D", "C")>>,
       <<Root("A"), Cascade("B", "A"), Cascade("C", "B")>>,
       <<Root("A"), Root("B")>> >>

FilterFns == {"targetFilterTableSchemas", "excludeFilterTableSchemas",
              "excludeFilterTableSchemasByLineage"}

\* A unit test about to call one half of the filter on a descriptor list,
\* and then once more on what the first call returned.  No run is started:
\* the variables of the run stay as main finds them.
TestHalfInit ==
    /\ scenario = 1
    /\ pc = "test"
    /\ client = "none"
    /\ schemas \in Range(FilterLists)
    /\ status = [t \in Names |-> statusAnalyzing]
    /\ totalRows = [t \in Names |-> 0]
    /\ remainedRows = [t \in Names |-> 0]
    /\ rows = [t \in Names |-> 0]
    /\ updater = [t \in Names |-> "off"]
    /\ coord = "off"
    /\ tasks = EmptyBag
    /\ ctxDone = FALSE
    /\ \E fn \in FilterFns :
       \E names \in SeqsUpTo(NamesOf(schemas) \cup {Unknown}, MaxNames) :
           call = [fn |-> fn, names |-> names, returned |-> FALSE,
                   ret |-> [tables |-> <<>>, panic |-> FALSE],
                   again |-> FALSE,
                   ret2 |-> [tables |-> <<>>, panic |-> FALSE]]

\* The series of counts the queries of one deleter return while no row is
\* inserted: each read is as of a later timestamp than the one before, so
\* no count is above the one before.
Counts ==
    {c \in SeqsUpTo(0..MaxCount, MaxSamples) :
        \A i \in 1..(Len(c) - 1) : c[i + 1] <= c[i]}

\* The table whose deleter the test drives.
Probe == "A"

\* A deleter as newCoordinator made it, and the counts its queries are going
\* to return.  at is the statement of updateRowCount about to run.
TestUpdateInit ==
    /\ scenario = 1
    /\ pc = "test"
    /\ client = "none"
    /\ schemas = db
    /\ status = [t \in Names |-> statusAnalyzing]
    /\ totalRows = [t \in Names |-> 0]
    /\ remainedRows = [t \in Names |-> 0]
    /\ rows = [t \in Names |-> 0]
    /\ updater = [t \in Names |-> "off"]
    /\ coord = "off"
    /\ tasks = EmptyBag
    /\ ctxDone = FALSE
    /\ \E c \in Counts :
          call = [fn |-> "updateRowCount", counts |-> c, next |-> 1,
                  at |-> "query", returned |-> FALSE]

\* Every number up to MaxNum is formatted.
MaxNum == 1200

\* The numbers of TestFormatNumber and others of one to four groups, with
\* groups of one, two and three digits and groups of zeros.
Nums ==
    (0..MaxNum)
    \cup {12345, 123456, 1234567, 1234567890}
    \cup {a * 1000000 + b * 1000 + c :
             a \in {0, 1, 12, 100, 999, 1000, 2146},
             b \in {0, 1, 10, 99, 100, 999},
             c \in {0, 7, 10, 100, 999}}

\* A unit test about to call formatNumber.
TestFormatInit ==
    /\ scenario = 1
    /\ pc = "test"
    /\ client = "none"
    /\ schemas = db
    /\ status = [t \in Names |-> statusAnalyzing]
    /\ totalRows = [t \in Names |-> 0]
    /\ remainedRows = [t \in Names |-> 0]
    /\ rows = [t \in Names |-> 0]
    /\ updater = [t \in Names |-> "off"]
    /\ coord = "off"
    /\ tasks = EmptyBag
    /\ ctxDone = FALSE
    /\ \E n \in Nums :
          call = [fn |-> "formatNumber", input |-> n, returned |-> FALSE,
                  ret |-> <<>>]

Init ==
    \/ RunInit \/ TestFilterInit \/ TestFindInit \/ TestHalfInit
    \/ TestUpdateInit \/ TestFormatInit

\* The test's call of formatNumber returns.
TestFormatNumber ==
    /\ pc = "test" /\ call.fn = "formatNumber" /\ ~call.returned
    /\ call' = [call EXCEPT !.returned = TRUE, !.ret = formatNumber(call.input)]
    /\ UNCHANGED <<scenario, pc, client, schemas, status, totalRows,
                   remainedRows, rows, updater, coord, tasks, ctxDone>>

\* The test's call of filterTableSchemas returns.
TestFilterTableSchemas ==
    /\ pc = "test" /\ call.fn = "filterTableSchemas" /\ ~call.returned
    /\ call' = [call EXCEPT !.returned = TRUE,
                   !.ret = filterTableSchemas(schemas, call.targetTables,
                                              call.excludeTables)]
    /\ UNCHANGED <<scenario, pc, client, schemas, status, totalRows,
                   remainedRows, rows, updater, coord, tasks, ctxDone>>

\* The test's call of findDeletableTables returns.
TestFindDeletableTables ==
    /\ pc = "test" /\ call.fn = "findDeletableTables" /\ ~call.returned
    /\ call' = [call EXCEPT !.returned = TRUE,
                   !.ret = findDeletableTables(schemas, status, Roots(schemas))]
    /\ UNCHANGED <<scenario, pc, client, schemas, status, totalRows,
                   remainedRows, rows, updater, coord, tasks, ctxDone>>

\* What the half fn of the filter returns on a list: (tables, panic).
applyFilter(fn, tables, names) ==
    CASE fn = "targetFilterTableSchemas" ->
            [tables |-> targetFilterTableSchemas(tables, names), panic |-> FALSE]
      [] fn = "excludeFilterTableSchemas" ->
            [tables |-> excludeFilterTableSchemas(tables, names), panic |-> FALSE]
      [] fn = "excludeFilterTableSchemasByLineage" ->
            excludeFilterTableSchemasByLineage(tables, names)

\* The test's call of one half of the filter returns.
TestFilterOnce ==
    /\ pc = "test" /\ call.fn \in FilterFns /\ ~call.returned
    /\ call' = [call EXCEPT !.returned = TRUE,
                   !.ret = applyFilter(call.fn, schemas, call.names)]
    /\ UNCHANGED <<scenario, pc, client, schemas, status, totalRows,
                   remainedRows, rows, updater, coord, tasks, ctxDone>>

\* The test hands the returned list to the same half again, with the same
\* names.
TestFilterAgain ==
    /\ pc = "test" /\ call.fn \in FilterFns
    /\ call.returned /\ ~call.ret.panic /\ ~call.again
    /\ call' = [call EXCEPT !.again = TRUE,
                   !.ret2 = applyFilter(call.fn, call.ret.tables, call.names)]
    /\ UNCHANGED <<scenario, pc, client, schemas, status, totalRows,
                   remainedRows, rows, updater, coord, tasks, ctxDone>>

\* The deleter under test, and what updateRowCount makes of it with the
\* count of the query in hand.
probed ==
    [status |-> status[Probe], totalRows |-> totalRows[Probe],
     remainedRows |-> remainedRows[Probe]]

updated == updateRowCount(probed, call.counts[call.next])

\* startRowCountUpdater's loop: return when completed, else the next query.
TestQuery ==
    /\ pc = "test" /\ call.fn = "updateRowCount" /\ call.at = "query"
    /\ ~call.returned
    /\ IF status[Probe] = statusCompleted \/ call.next > Len(call.counts)
       THEN call' = [call EXCEPT !.returned = TRUE]
       ELSE call' = [call EXCEPT !.at = "totalRows"]
    /\ UNCHANGED <<scenario, pc, client, schemas, status, totalRows,
                   remainedRows, rows, updater, coord, tasks, ctxDone>>

\* if d.totalRows == 0 { d.totalRows = uint64(count) }
TestSetTotalRows ==
    /\ pc = "test" /\ call.fn = "updateRowCount" /\ call.at = "totalRows"
    /\ totalRows' = [totalRows EXCEPT ![Probe] = updated.totalRows]
    /\ call' = [call EXCEPT !.at = "remainedRows"]
    /\ UNCHANGED <<scenario, pc, client, schemas, status, remainedRows, rows,
                   updater, coord, tasks, ctxDone>>

\* d.remainedRows = uint64(count)
TestSetRemainedRows ==
    /\ pc = "test" /\ call.fn = "updateRowCount" /\ call.at = "remainedRows"
    /\ remainedRows' = [remainedRows EXCEPT ![Probe] = updated.remainedRows]
    /\ call' = [call EXCEPT !.at = "status"]
    /\ UNCHANGED <<scenario, pc, client, schemas, status, totalRows, rows,
                   updater, coord, tasks, ctxDone>>

\* The status written last; the loop goes round.
TestSetStatus ==
    /\ pc = "test" /\ call.fn = "updateRowCount" /\ call.at = "status"
    /\ status' = [status EXCEPT ![Probe] = updated.status]
    /\ call' = [call EXCEPT !.at = "query", !.next = call.next + 1]
    /\ UNCHANGED <<scenario, pc, client, schemas, totalRows, remainedRows,
                   rows, updater, coord, tasks, ctxDone>>

(***************************************************************************)
(* main and run.                                                           *)
(***************************************************************************)
\* main's check of -t against -e (the lists stand for the option strings:
\* an empty list is the empty string).
optionsConflict(tables, excludeTables) ==
    Len(excludeTables) > 0 /\ Len(tables) > 0

\* main: exitf on a conflict, else run opens the client.
Main ==
    /\ pc = "main"
    /\ IF optionsConflict(optTables, optExcludeTables)
       THEN pc' = "exit" /\ UNCHANGED client
       ELSE pc' = "fetch" /\ client' = "open"
    /\ UNCHANGED <<scenario, schemas, status, totalRows, remainedRows, rows,
                   updater, coord, tasks, ctxDone, call>>

\* run: fetch and filter the table schemas, print them.
Fetch ==
    /\ pc = "fetch"
    /\ LET r == filterTableSchemas(db, optTables, optExcludeTables)
       IN IF r.err
          THEN pc' = "errFetch" /\ client' = "closed" /\ UNCHANGED schemas
          ELSE pc' = "confirm" /\ schemas' = r.tables /\ UNCHANGED client
    /\ UNCHANGED <<scenario, status, totalRows, remainedRows, rows,
                   updater, coord, tasks, ctxDone, call>>

\* run going on to newCoordinator and start whatever the answer is.
ConfirmUnheeded(answer) ==
    /\ pc = "confirm"
    /\ pc' = (IF answer = "n" THEN "declined" ELSE "wait")
    /\ coord' = "init"
    /\ client' = (IF answer = "n" THEN "closed" ELSE client)
    /\ UNCHANGED <<scenario, schemas, status, totalRows, remainedRows, rows,
                   updater, tasks, ctxDone, call>>

\* run: the prompt (skipped when quiet), then newCoordinator, start and the
\* entry into waitCompleted.
Confirm(answer) ==
    /\ pc = "confirm"
    /\ IF answer = "n"
       THEN pc' = "declined" /\ client' = "closed" /\ UNCHANGED coord
       ELSE pc' = "wait" /\ coord' = "init" /\ UNCHANGED client
    /\ UNCHANGED <<scenario, schemas, status, totalRows, remainedRows, rows,
                   updater, tasks, ctxDone, call>>

(***************************************************************************)
(* The coordinator goroutine.                                              *)
(***************************************************************************)
Alive == pc = "wait"

\* A start that starts the updaters of coordinator.tables only, not of the
\* tables below them.
StartUpdatersOfRoots ==
    /\ Alive /\ coord = "init"
    /\ coord' = "loop"
    /\ updater' = [t \in Names |->
                     IF t \in Range(Roots(schemas)) THEN "on" ELSE updater[t]]
    /\ UNCHANGED <<scenario, pc, client, schemas, status, totalRows,
                   remainedRows, rows, tasks, ctxDone, call>>

\* The head of the goroutine of start: one row-count updater per table.
StartUpdaters ==
    /\ Alive /\ coord = "init"
    /\ coord' = "loop"
    /\ updater' = [t \in Names |->
                     IF t \in Range(flattenTables(schemas, Roots(schemas)))
                     THEN "on" ELSE updater[t]]
    /\ UNCHANGED <<scenario, pc, client, schemas, status, totalRows,
                   remainedRows, rows, tasks, ctxDone, call>>

\* The tables a status map shows completed.
completedIn(st) == {t \in DOMAIN st : st[t] = statusCompleted}

\* The goroutines one tick spawns for the tables it found: each closes over
\* the loop variable and the tick's slice; done records the tables the tick
\* read as completed.
spawned(tables, st) ==
    LET one(i) == SetToBag({[sel |-> tables, idx |-> i, done |-> completedIn(st),
                             at |-> "spawned", table |-> ""]})
        RECURSIVE sum(_)
        sum(i) == IF i = 0 THEN EmptyBag ELSE sum(i - 1) (+) one(i)
    IN sum(Len(tables))

\* The status map after the loop over the found tables.
RECURSIVE markCascade(_, _, _)
markCascade(ss, st, tables) ==
    IF tables = <<>> THEN st
    ELSE markCascade(ss, cascadeDelete(ss, st, childTables(ss, Head(tables))),
                     Tail(tables))

\* Whether the tick reports a stall on errChan.
stalled(ss, st, tables) ==
    /\ Len(tables) = 0
    /\ ~isAllTablesDeleted(ss, st, Roots(ss))
    /\ ~isAnyTableDeleting(ss, st, Roots(ss))

\* case <-ticker.C
Tick ==
    /\ Alive /\ coord = "loop"
    /\ LET found == findDeletableTables(schemas, status, Roots(schemas))
           tables == found.deletable
       IN IF found.panic
          THEN /\ pc' = "panic"
               /\ UNCHANGED <<coord, tasks, status>>
          ELSE /\ BagCardinality(tasks) + Len(tables) <= MaxTasks
               /\ coord' = IF stalled(schemas, status, tables)
                           THEN "sendStall" ELSE coord
               /\ tasks' = tasks (+) spawned(tables, status)
               /\ status' = markCascade(schemas, status, tables)
               /\ UNCHANGED pc
    /\ UNCHANGED <<scenario, client, schemas, totalRows, remainedRows, rows,
                   updater, ctxDone, call>>

\* case <-ctx.Done()
CtxDone ==
    /\ Alive /\ coord = "loop" /\ ctxDone
    /\ coord' = "sendCtx"
    /\ UNCHANGED <<scenario, pc, client, schemas, status, totalRows,
                   remainedRows, rows, updater, tasks, ctxDone, call>>

(***************************************************************************)
(* The deleteRows goroutines.                                              *)
(***************************************************************************)
\* The goroutine reads the loop variable, which by then names the table of
\* its own iteration or of a later one, and deleteRows sets the status.
DeleteStart(task) ==
    /\ Alive /\ BagIn(task, tasks) /\ task.at = "spawned"
    /\ \E j \in task.idx..Len(task.sel) :
         LET t == task.sel[j]
         IN /\ status' = [status EXCEPT ![t] = deleteRowsStatus(status[t])]
            /\ tasks' = (tasks (-) SetToBag({task}))
                          (+) SetToBag({[task EXCEPT !.at = "deleting", !.table = t]})
    /\ UNCHANGED <<scenario, pc, client, schemas, totalRows, remainedRows,
                   rows, updater, coord, ctxDone, call>>

\* PartitionedUpdate returns nil: the goroutine ends.
DeleteOK(task) ==
    /\ Alive /\ BagIn(task, tasks) /\ task.at = "deleting"
    /\ ~ctxDone
    /\ ~dbRejects(db, rows, task.table)
    /\ rows' = [t \in Names |->
                  IF t \in dbCascade(db, task.table) THEN 0 ELSE rows[t]]
    /\ tasks' = tasks (-) SetToBag({task})
    /\ UNCHANGED <<scenario, pc, client, schemas, status, totalRows,
                   remainedRows, updater, coord, ctxDone, call>>

\* PartitionedUpdate returns an error: the goroutine blocks on errChan.
DeleteFail(task) ==
    /\ Alive /\ BagIn(task, tasks) /\ task.at = "deleting"
    /\ tasks' = (tasks (-) SetToBag({task}))
                  (+) SetToBag({[task EXCEPT !.at = "sendErr"]})
    /\ UNCHANGED <<scenario, pc, client, schemas, status, totalRows,
                   remainedRows, rows, updater, coord, ctxDone, call>>

(***************************************************************************)
(* The row-count goroutines.                                               *)
(***************************************************************************)
\* One turn of the loop of startRowCountUpdater whose query succeeds.
UpdateRowCount(t) ==
    /\ Alive /\ updater[t] = "on"
    /\ status[t] # statusCompleted
    /\ ~ctxDone
    /\ LET d == updateRowCount([status |-> status[t], totalRows |-> totalRows[t],
                                remainedRows |-> remainedRows[t]], rows[t])
       IN /\ status' = [status EXCEPT ![t] = d.status]
          /\ totalRows' = [totalRows EXCEPT ![t] = d.totalRows]
          /\ remainedRows' = [remainedRows EXCEPT ![t] = d.remainedRows]
    /\ UNCHANGED <<scenario, pc, client, schemas, rows, updater, coord,
                   tasks, ctxDone, call>>

\* The loop finds the status completed and returns.
UpdaterReturn(t) ==
    /\ Alive /\ updater[t] = "on"
    /\ status[t] = statusCompleted
    /\ updater' = [updater EXCEPT ![t] = "done"]
    /\ UNCHANGED <<scenario, pc, client, schemas, status, totalRows,
                   remainedRows, rows, coord, tasks, ctxDone, call>>

\* How many samplers are at one time between a failed query and their next
\* period.
MaxFailed == 1

\* A failed turn that writes the zero value of count all the same.
UpdateRowCountErrCounted(t) ==
    /\ Alive /\ updater[t] = "on"
    /\ status[t] # statusCompleted
    /\ Cardinality({u \in Names : updater[u] = "failed"}) < MaxFailed
    /\ updater' = [updater EXCEPT ![t] = "failed"]
    /\ remainedRows' = [remainedRows EXCEPT ![t] = 0]
    /\ status' = [status EXCEPT ![t] = statusCompleted]
    /\ UNCHANGED <<scenario, pc, client, schemas, totalRows, rows, coord,
                   tasks, ctxDone, call>>

\* One turn of the loop whose query returns an error: updateRowCount returns
\* it before any write and the loop drops it and sleeps.
UpdateRowCountErr(t) ==
    /\ Alive /\ updater[t] = "on"
    /\ status[t] # statusCompleted
    /\ Cardinality({u \in Names : updater[u] = "failed"}) < MaxFailed
    /\ updater' = [updater EXCEPT ![t] = "failed"]
    /\ UNCHANGED <<scenario, pc, client, schemas, status, totalRows,
                   remainedRows, rows, coord, tasks, ctxDone, call>>

\* time.Sleep returns after the failed turn: the loop goes round.
UpdaterSleep(t) ==
    /\ Alive /\ updater[t] = "failed"
    /\ updater' = [updater EXCEPT ![t] = "on"]
    /\ UNCHANGED <<scenario, pc, client, schemas, status, totalRows,
                   remainedRows, rows, coord, tasks, ctxDone, call>>

(***************************************************************************)
(* waitCompleted and the context.                                          *)
(***************************************************************************)
\* case <-ticker.C with every table deleted.
WaitTick ==
    /\ Alive
    /\ isAllTablesDeleted(schemas, status, Roots(schemas))
    /\ pc' = "nil" /\ client' = "closed"
    /\ UNCHANGED <<scenario, schemas, status, totalRows, remainedRows, rows,
                   updater, coord, tasks, ctxDone, call>>

\* case err := <-c.errChan: one of the blocked senders gets through.
WaitErr(e) ==
    /\ Alive
    /\ \/ e = "errStall" /\ coord = "sendStall"
       \/ e = "errCtx" /\ coord = "sendCtx"
       \/ e = "errDelete" /\ \E task \in BagToSet(tasks) : task.at = "sendErr"
    /\ pc' = e /\ client' = "closed"
    /\ UNCHANGED <<scenario, schemas, status, totalRows, remainedRows, rows,
                   updater, coord, tasks, ctxDone, call>>

\* An interrupt or the timeout cancels ctx.
Cancel ==
    /\ Alive /\ ~ctxDone
    /\ ctxDone' = TRUE
    /\ UNCHANGED <<scenario, pc, client, schemas, status, totalRows,
                   remainedRows, rows, updater, coord, tasks, call>>

TaskSet == BagToSet(tasks)

Next ==
    \/ Main
    \/ Fetch
    \/ \E answer \in {"quiet", "Y", "n"} : Confirm(answer)
    \/ StartUpdaters
    \/ Tick
    \/ CtxDone
    \/ \E task \in TaskSet : DeleteStart(task)
    \/ \E task \in TaskSet : DeleteOK(task)
    \/ \E task \in TaskSet : DeleteFail(task)
    \/ \E t \in Names : UpdateRowCount(t)
    \/ \E t \in Names : UpdateRowCountErr(t)
    \/ \E t \in Names : UpdaterSleep(t)
    \/ \E t \in Names : UpdaterReturn(t)
    \/ WaitTick
    \/ \E e \in {"errStall", "errCtx", "errDelete"} : WaitErr(e)
    \/ Cancel
    \/ TestFilterTableSchemas
    \/ TestFindDeletableTables
    \/ TestFilterOnce
    \/ TestFilterAgain
    \/ TestQuery
    \/ TestSetTotalRows
    \/ TestSetRemainedRows
    \/ TestSetStatus
    \/ TestFormatNumber

Spec == Init /\ [][Next]_vars

(***************************************************************************)
(* Runs the user confirms in which no bulk delete fails and ctx is never   *)
(* cancelled, under the scheduling the Go runtime and the tickers give:    *)
(* every goroutine that can take its next step eventually takes it.        *)
(***************************************************************************)
\* The scenarios such runs are explored on: no -t or -e, with and without
\* a cycle of references.
LiveScenarios == {1, 2, 3, 4, 5, 6, 10, 13}

AllNames == UNION {NamesOf(Scenarios[i].db) : i \in 1..Len(Scenarios)}

FairInit == RunInitOn(LiveScenarios)

DeleteStartSome == \E task \in TaskSet : DeleteStart(task)
DeleteOKSome == \E task \in TaskSet : DeleteOK(task)
UpdateRowCountOf(t) == t \in Names /\ UpdateRowCount(t)
UpdaterReturnOf(t) == t \in Names /\ UpdaterReturn(t)

FairNext ==
    \/ Main
    \/ Fetch
    \/ Confirm("quiet")
    \/ StartUpdaters
    \/ Tick
    \/ DeleteStartSome
    \/ DeleteOKSome
    \/ \E t \in AllNames : UpdateRowCountOf(t)
    \/ \E t \in AllNames : UpdaterReturnOf(t)
    \/ WaitTick
    \/ WaitErr("errStall")

FairSpec ==
    /\ FairInit /\ [][FairNext]_vars
    /\ WF_vars(Main) /\ WF_vars(Fetch) /\ WF_vars(Confirm("quiet"))
    /\ WF_vars(StartUpdaters) /\ WF_vars(Tick)
    /\ WF_vars(DeleteStartSome) /\ WF_vars(DeleteOKSome)
    /\ \A t \in AllNames : WF_vars(UpdateRowCountOf(t))
    /\ \A t \in AllNames : WF_vars(UpdaterReturnOf(t))
    /\ WF_vars(WaitTick) /\ WF_vars(WaitErr("errStall"))

(***************************************************************************)
(* Runs under fair scheduling in which ctx may be cancelled and a bulk     *)
(* delete may return an error.                                             *)
(***************************************************************************)
CancelScenarios == {1, 2, 4, 7, 9, 10}

CancelInit == RunInitOn(CancelScenarios)

DeleteFailSome == \E task \in TaskSet : DeleteFail(task)
WaitErrSome == \E e \in {"errStall", "errCtx", "errDelete"} : WaitErr(e)

CancelNext ==
    \/ Main
    \/ Fetch
    \/ Confirm("quiet")
    \/ StartUpdaters
    \/ Tick
    \/ CtxDone
    \/ DeleteStartSome
    \/ DeleteOKSome
    \/ DeleteFailSome
    \/ \E t \in AllNames : UpdateRowCountOf(t)
    \/ \E t \in AllNames : UpdaterReturnOf(t)
    \/ WaitTick
    \/ WaitErrSome
    \/ Cancel

\* Every goroutine that can take a step takes one in the end, and both
\* selects get to each case that stays ready; the cancellation and the
\* errors of the database are up to the environment.
CancelSpec ==
    /\ CancelInit /\ [][CancelNext]_vars
    /\ WF_vars(Main) /\ WF_vars(Fetch) /\ WF_vars(Confirm("quiet"))
    /\ WF_vars(StartUpdaters) /\ WF_vars(Tick) /\ WF_vars(CtxDone)
    /\ WF_vars(DeleteStartSome) /\ WF_vars(DeleteOKSome)
    /\ \A t \in AllNames : WF_vars(UpdateRowCountOf(t))
    /\ \A t \in AllNames : WF_vars(UpdaterReturnOf(t))
    /\ WF_vars(WaitTick) /\ WF_vars(WaitErrSome)

(***************************************************************************)
(* Properties.                                                             *)
(***************************************************************************)
\* The deleteRows goroutines that have called deleteRows.
Started == {task \in TaskSet : task.at # "spawned"}

\* The tables below t in the tree.
descendants(ss, t) == Range(flattenTables(ss, childTables(ss, t)))

subtree(ss, t) == {t} \cup descendants(ss, t)

noActionChildren(ss, t) ==
    {c \in Range(childTables(ss, t)) :
        parentOnDeleteAction(ss, c) = deleteActionNoAction}

\* C1: a bulk delete is started on a table only if the tick that selected it
\* read every no-action interleave child of the table as completed.
C1_NoActionOrdering ==
    \A task \in Started :
        /\ task.table \in Range(task.sel)
        /\ noActionChildren(schemas, task.table) \subseteq task.done

\* A bulk delete runs on a table that has a no-action child.
C1_Witness ==
    \E task \in TaskSet :
        /\ task.at = "deleting"
        /\ noActionChildren(schemas, task.table) # {}

\* C2: a bulk delete is started on a table only if the tick that selected it
\* read every table of its referencedBy as completed.
C2_ForeignKeyOrdering ==
    \A task \in Started :
        /\ task.table \in Range(task.sel)
        /\ Range(referencedBy(schemas, task.table)) \subseteq task.done

\* A bulk delete runs on a table some other table references.
C2_Witness ==
    \E task \in TaskSet :
        /\ task.at = "deleting"
        /\ Range(referencedBy(schemas, task.table)) # {}

\* Whether table u has a blocker of its own, given the completed tables.
blocked(ss, done, u) ==
    \/ ~(noActionChildren(ss, u) \subseteq done)
    \/ ~(Range(referencedBy(ss, u)) \subseteq done)

\* The two trees of the examples.
ChainWithNoAction ==
    <<Root("A"), Cascade("B", "A"), NoAction("C", "B"), Cascade("D", "C")>>
ReferencedAcross ==
    <<Root("A"), RefBy(Cascade("B", "A"), <<"D">>), Root("C"), Cascade("D", "C")>>

\* C3: findDeletableTables selects no table that has a descendant with a
\* no-action child or a referencing table that is not completed, and no
\* table that is blocked itself, in a test call on any statuses and at every
\* tick of a run; on the two example trees with no table deleted yet it
\* selects exactly C.
C3_TransitiveBlockers ==
    /\ (call.fn = "findDeletableTables" /\ call.returned) =>
          /\ \A i \in 1..Len(call.ret.deletable) :
                \A d \in subtree(schemas, call.ret.deletable[i]) :
                    ~blocked(schemas, completedIn(status), d)
          /\ ( /\ schemas \in {ChainWithNoAction, ReferencedAcross}
               /\ \A t \in Names : status[t] \in {statusAnalyzing, statusWaiting} )
                => call.ret.deletable = <<"C">>
    /\ \A task \in TaskSet :
          \A i \in 1..Len(task.sel) :
              \A d \in subtree(schemas, task.sel[i]) :
                  ~blocked(schemas, task.done, d)

\* The test on the chain with a no-action link got exactly C.
C3_Witness ==
    /\ call.fn = "findDeletableTables" /\ call.returned
    /\ schemas = ChainWithNoAction
    /\ \A t \in Names : status[t] = statusAnalyzing
    /\ call.ret.deletable = <<"C">>

\* C4: a bulk delete is started on a table only if the tick that selected it
\* read every child that has a global index as completed.
C4_GlobalIndexOrdering ==
    \A task \in Started :
        \A c \in Range(childTables(schemas, task.table)) :
            hasGlobalIndex(c) => c \in task.done

\* C6: when waitCompleted has returned nil every table of the descriptor list
\* handed to newCoordinator is completed.
C6_SuccessMeansEmptied ==
    pc = "nil" => \A t \in NamesOf(schemas) : status[t] = statusCompleted

\* C7: no step changes a completed status.
C7_CompletedIsTerminal ==
    [][\A t \in Names : status[t] = statusCompleted
                            => status'[t] = statusCompleted]_vars

\* The deleteRows calls on table t that have not returned.
inFlight(t) ==
    LET S == {task \in TaskSet : task.at = "deleting" /\ task.table = t}
    IN BagCardinality([task \in S |-> tasks[task]])

\* C8: at no time are two deleteRows calls on the same table in flight.
C8_OneDeletePerTable ==
    \A t \in Names : inFlight(t) <= 1


\* The pairs (t, u) where t cannot be deleted before u: u is an interleave
\* child of t or holds a foreign key to t.
waitsFor(ss) ==
    {<<ss[i].parentTableName, ss[i].tableName>> :
        i \in {j \in 1..Len(ss) : ss[j].parentTableName \in NamesOf(ss)}}
    \cup UNION {{<<ss[i].tableName, r>> :
                    r \in Range(ss[i].referencedBy) \cap NamesOf(ss)} :
                i \in 1..Len(ss)}

\* The tables reachable from the tables of S along the pairs of E.
RECURSIVE reachable(_, _)
reachable(E, S) ==
    LET more == S \cup {e[2] : e \in {x \in E : x[1] \in S}}
    IN IF more = S THEN S ELSE reachable(E, more)

onCycle(E, t) == t \in reachable(E, {e[2] : e \in {x \in E : x[1] = t}})

acyclic(ss) == \A t \in NamesOf(ss) : ~onCycle(waitsFor(ss), t)

\* C5: a confirmed run on a database without a cycle, in which no delete
\* fails, ctx is not cancelled and no row is inserted, ends with every table
\* completed and waitCompleted returning nil.
C5_TerminationWithSuccess ==
    (pc = "wait" /\ acyclic(schemas))
        ~> (pc = "nil" /\ \A t \in NamesOf(schemas) : status[t] = statusCompleted)

\* The references among the tables that still hold rows.
referencesAmongRows ==
    {e \in waitsFor(schemas) :
        /\ rows[e[1]] > 0 /\ rows[e[2]] > 0
        /\ e[2] \in Range(schemaOf(schemas, e[1]).referencedBy)}

\* Rows are left, and every table holding rows is on a cycle of references
\* among such tables.
cycleBlocked ==
    /\ \E t \in NamesOf(schemas) : rows[t] > 0
    /\ \A t \in NamesOf(schemas) : rows[t] > 0 => onCycle(referencesAmongRows, t)

\* What a tick found deletable.
found == findDeletableTables(schemas, status, Roots(schemas)).deletable

\* C9: once the tables holding rows are blocked by a cycle of references and
\* no table is deleting or cascade deleting, waitCompleted returns the stall
\* error; and a tick reports a stall exactly when it found no table, not all
\* tables are completed and none is deleting or cascade deleting.
C9_StallDetection ==
    /\ [][Tick => (coord' = "sendStall" <=> stalled(schemas, status, found))]_vars
    /\ ( /\ pc = "wait" /\ coord # "init" /\ cycleBlocked
         /\ ~isAnyTableDeleting(schemas, status, Roots(schemas)) )
          ~> (pc = "errStall")

\* C10: filterTableSchemas given a target list and an exclude list returns an
\* error and no tables, and main given -t and -e exits with no client opened
\* and no goroutine started.
C10_ConflictingSelection ==
    /\ ( /\ call.fn = "filterTableSchemas" /\ call.returned
         /\ Len(call.targetTables) > 0 /\ Len(call.excludeTables) > 0 )
          => call.ret.err /\ call.ret.tables = <<>>
    /\ (pc # "test" /\ optionsConflict(optTables, optExcludeTables))
          => /\ pc \in {"main", "exit"}
             /\ client = "none" /\ coord = "off" /\ tasks = EmptyBag
             /\ \A t \in Names : updater[t] = "off"

\* The test with both lists got its error on a descriptor list that holds
\* the target.
C10_Witness ==
    /\ call.fn = "filterTableSchemas" /\ call.returned
    /\ Len(call.targetTables) > 0 /\ Len(call.excludeTables) > 0
    /\ Range(call.targetTables) \subseteq NamesOf(schemas)
    /\ call.ret.err

(***************************************************************************)
(* The two halves of the filter.                                           *)
(***************************************************************************)
ExcludeFns == {"excludeFilterTableSchemas", "excludeFilterTableSchemasByLineage"}

\* The tables reached by walking up from t for as long as the table walked
\* from is deleted in cascade with its parent.
RECURSIVE cascadeAncestors(_, _)
cascadeAncestors(ss, t) ==
    IF t \in NamesOf(ss) /\ isCascadeDeletable(schemaOf(ss, t))
    THEN LET p == schemaOf(ss, t).parentTableName
         IN {p} \cup cascadeAncestors(ss, p)
    ELSE {}

removedBy(ss, E) == E \cup UNION {cascadeAncestors(ss, e) : e \in E}

\* C11: on a non-empty exclude list E, either excludeFilterTableSchemas
\* removes E and every table reached by walking up from a table of E through
\* tables deleted in cascade with their parent, and keeps every other table
\* in the order of the list; excluding Songs of Singers <- Albums <- Songs,
\* t1, t2, t3 keeps t1, t2, t3 and excluding Albums keeps Songs, t1, t2, t3.
C11_ExcludeClosure ==
    (pc = "test" /\ call.fn \in ExcludeFns /\ call.returned /\ call.names # <<>>) =>
        /\ ~call.ret.panic
        /\ call.ret.tables =
              SelectSeq(schemas, LAMBDA t :
                  t.tableName \notin removedBy(schemas, Range(call.names)))
        /\ (schemas = FilterLists[1] /\ call.names = <<"Songs">>)
              => NamesOf(call.ret.tables) = {"t1", "t2", "t3"}
        /\ (schemas = FilterLists[1] /\ call.names = <<"Albums">>)
              => NamesOf(call.ret.tables) = {"Songs", "t1", "t2", "t3"}

C11_Witness ==
    /\ pc = "test" /\ call.fn = "excludeFilterTableSchemasByLineage"
    /\ call.returned
    /\ schemas = FilterLists[1] /\ call.names = <<"Albums">>
    /\ NamesOf(call.ret.tables) = {"Songs", "t1", "t2", "t3"}

\* The tables named in T and every table below one of them through
\* interleave hops that are all ON DELETE CASCADE.
keptBy(ss, T) == UNION {dbCascade(ss, t) : t \in T}

\* C12: on a non-empty target list T, targetFilterTableSchemas keeps the
\* tables named in T and every descendant reached from one of them through
\* cascade hops only, and drops every other table; the target Singers keeps
\* Singers, Albums and Songs.
C12_TargetClosure ==
    (pc = "test" /\ call.fn = "targetFilterTableSchemas" /\ call.returned
        /\ call.names # <<>>) =>
        /\ call.ret.tables =
              SelectSeq(schemas, LAMBDA t :
                  t.tableName \in keptBy(schemas, Range(call.names)))
        /\ (schemas = FilterLists[1] /\ call.names = <<"Singers">>)
              => NamesOf(call.ret.tables) = {"Singers", "Albums", "Songs"}
        /\ (schemas = FilterLists[2] /\ call.names = <<"Singers", "t4">>)
              => NamesOf(call.ret.tables) = {"Singers", "Albums", "Songs", "t4"}

(***************************************************************************)
(* The excluded tables over a run.                                         *)
(***************************************************************************)
excludeMode == pc # "test" /\ optTables = <<>> /\ optExcludeTables # <<>>

\* The tables whose bulk delete removes rows of an excluded table: the
\* excluded tables and those an excluded table hangs below through cascade
\* hops only.
protected == {t \in Names : dbCascade(db, t) \cap Range(optExcludeTables) # {}}

\* C13: in a run with an exclude list, no deleteRows is started on an
\* excluded table or on a table an excluded table hangs below through
\* cascade hops, and no step changes the rows of an excluded table.
C13_ExcludedDataProtected ==
    [][excludeMode =>
          /\ \A task \in TaskSet' :
                task.at # "spawned" => task.table \notin protected
          /\ \A e \in Range(optExcludeTables) \cap Names : rows'[e] = rows[e]]_vars

C13_Witness ==
    /\ excludeMode /\ scenario = 9
    /\ rows["B"] = 1 /\ rows["C"] = 0 /\ status["C"] = statusCompleted
    /\ totalRows["C"] = 1

\* C14: handing the list a half of the filter returned to the same half
\* again, with the same names, returns that list.
C14_FilterIdempotence ==
    (pc = "test" /\ call.fn \in FilterFns /\ call.again) =>
        /\ ~call.ret2.panic
        /\ call.ret2.tables = call.ret.tables

(***************************************************************************)
(* Errors of deleteRows, cancellation, confirmation.                       *)
(***************************************************************************)
\* The deleteRows goroutines whose bulk delete returned an error and which
\* hold that error for errChan.
failedTasks == {task \in TaskSet : task.at = "sendErr"}

\* C15: once a bulk delete has returned an error, waitCompleted does not
\* return nil: what it returns is an error.
C15_DeleteErrorAborts == failedTasks # {} => pc # "nil"

\* C16: once deleteRows on a table has returned an error, no tick finds
\* that table deletable again, so no later tick starts deleteRows on it.
C16_NoRetryAfterError ==
    (Alive /\ coord = "loop"
        /\ ~findDeletableTables(schemas, status, Roots(schemas)).panic) =>
        \A f \in failedTasks : f.table \notin Range(found)

\* C17: when ctx is cancelled while a table of the filtered list is not
\* completed, waitCompleted returns an error in the end.
C17_Cancellation ==
    (pc = "wait" /\ ctxDone
        /\ \E t \in NamesOf(schemas) : status[t] # statusCompleted)
      ~> pc \in {"errStall", "errCtx", "errDelete"}

\* Where run stands before the coordinator exists, or after it returned
\* without making one.
notStarted == {"main", "exit", "fetch", "errFetch", "confirm", "declined"}

\* C18: up to the confirmation, and after the answer n, there is no
\* coordinator, no row-count updater and no deleteRows goroutine, and every
\* deleter is as it was made; so a declined run has deleted nothing.
C18_DeclineDeletesNothing ==
    pc \in notStarted =>
        /\ coord = "off"
        /\ tasks = EmptyBag
        /\ \A t \in Names : updater[t] = "off" /\ status[t] = statusAnalyzing

C18_Witness ==
    /\ pc = "declined" /\ client = "closed"
    /\ schemas # <<>>
    /\ \E t \in NamesOf(schemas) : rows[t] > 0

(***************************************************************************)
(* The counters the progress bar reads.                                    *)
(***************************************************************************)
\* deletedRows of showProgressBar, before it is taken as a uint64.
deletedRows(t) == totalRows[t] - remainedRows[t]

removed == NamesOf(schemas) \ NamesOf(call.ret.tables)

\* C20 as it is stated: a table whose own parent action is NO ACTION is
\* removed only when the exclude list names it.
C20_NoActionNeverAncestor ==
    (pc = "test" /\ call.fn \in ExcludeFns /\ call.returned /\ call.names # <<>>) =>
        \A i \in 1..Len(schemas) :
            (/\ schemas[i].parentOnDeleteAction = deleteActionNoAction
             /\ schemas[i].tableName \in removed)
                => schemas[i].tableName \in Range(call.names)

\* C20, amended: a table the exclude list does not name is removed only as
\* the parent of a removed table that is deleted in cascade with it; so the
\* parent of a removed NO ACTION table is not removed on that table's
\* account, while a NO ACTION table is removed with its removed cascade child.
C20_NoActionHopStopsWalk ==
    (pc = "test" /\ call.fn \in ExcludeFns /\ call.returned /\ call.names # <<>>) =>
        /\ ~call.ret.panic
        /\ \A r \in removed \ Range(call.names) :
              \E i \in 1..Len(schemas) :
                  /\ schemas[i].parentTableName = r
                  /\ isCascadeDeletable(schemas[i])
                  /\ schemas[i].tableName \in removed
        /\ \A i \in 1..Len(schemas) :
              (isCascadeDeletable(schemas[i]) /\ schemas[i].tableName \in removed)
                  => schemas[i].parentTableName \in removed

C20_Witness ==
    /\ pc = "test" /\ call.fn \in ExcludeFns /\ call.returned
    /\ schemas = FilterLists[3] /\ call.names = <<"C">>
    /\ NamesOf(call.ret.tables) = {"A"}

(***************************************************************************)
(* The filter without a selection.                                         *)
(***************************************************************************)
\* C21: with an empty target list and an empty exclude list
\* filterTableSchemas returns the list it was given, in its order, and no
\* error; either half of the filter returns its list when its name list is
\* empty.
C21_NoSelectionNoFilter ==
    /\ (pc = "test" /\ call.fn = "filterTableSchemas" /\ call.returned
           /\ call.targetTables = <<>> /\ call.excludeTables = <<>>)
          => (call.ret.tables = schemas /\ ~call.ret.err)
    /\ (pc = "test" /\ call.fn \in FilterFns /\ call.returned
           /\ call.names = <<>>)
          => (call.ret.tables = schemas /\ ~call.ret.panic)

C21_Witness ==
    /\ pc = "test" /\ call.fn = "filterTableSchemas" /\ call.returned
    /\ call.targetTables = <<>> /\ call.excludeTables = <<>>
    /\ Len(schemas) = 4 /\ call.ret.tables = schemas

(***************************************************************************)
(* Selection and statuses over a run.                                      *)
(***************************************************************************)
\* The run on the chain A <- B <- C in which every hop is ON DELETE CASCADE.
cascadeChain == pc # "test" /\ scenario = 10

\* C22: on the chain A <- B <- C with cascade hops only, a tick selects
\* nothing but A, and in the step that makes A completed B and C are
\* completed already.
C22_CascadeChainOrder ==
    [][cascadeChain =>
          /\ (Alive /\ coord = "loop") => Range(found) \subseteq {"A"}
          /\ (status["A"] # statusCompleted /\ status'["A"] = statusCompleted)
                => (status["B"] = statusCompleted /\ status["C"] = statusCompleted)]_vars

\* The tables of the tree above t.
ancestors(ss, t) ==
    {a \in Range(flattenTables(ss, Roots(ss))) : t \in descendants(ss, a)}

skipped(st, t) == st[t] \in {statusDeleting, statusCompleted}

\* The tables of the tree, in pre-order, that are not skipped and deletable
\* while each table above them is neither skipped nor deletable.
selectable(ss, st) ==
    SelectSeq(flattenTables(ss, Roots(ss)), LAMBDA t :
        /\ ~skipped(st, t)
        /\ isDeletable(ss, st, t) = "true"
        /\ \A a \in ancestors(ss, t) :
              ~skipped(st, a) /\ isDeletable(ss, st, a) = "false")

\* C23: findDeletableTables returns, in the pre-order of the tree, the
\* tables that are neither deleting nor completed and deletable, and whose
\* ancestors are all neither deleting nor completed nor deletable; in a test
\* call on any statuses and at every tick of a run.
C23_FindDeletableExact ==
    /\ (pc = "test" /\ call.fn = "findDeletableTables" /\ call.returned
           /\ ~call.ret.panic)
          => call.ret.deletable = selectable(schemas, status)
    /\ (Alive /\ coord = "loop"
           /\ ~findDeletableTables(schemas, status, Roots(schemas)).panic)
          => found = selectable(schemas, status)

C23_Witness ==
    /\ pc = "test" /\ call.fn = "findDeletableTables" /\ call.returned
    /\ ~call.ret.panic
    /\ Len(schemas) = 4 /\ Len(call.ret.deletable) = 1
    /\ call.ret.deletable[1] \notin Range(Roots(schemas))
    /\ \E t \in Names : skipped(status, t)

\* Whether no table of t's subtree has a no-action child or a referencing
\* table that is not completed.
unblocked(ss, st, t) ==
    \A u \in subtree(ss, t) : ~blocked(ss, completedIn(st), u)

\* With the statuses st and the selection sel of a tick: a table all of
\* whose blockers are completed is deletable, and is selected unless it or a
\* table above it is deleting, completed or selected.
selectedWhenUnblocked(ss, st, sel) ==
    \A t \in Range(flattenTables(ss, Roots(ss))) :
        unblocked(ss, st, t) =>
            /\ isDeletable(ss, st, t) = "true"
            /\ (/\ ~skipped(st, t)
                /\ \A a \in ancestors(ss, t) :
                      ~skipped(st, a) /\ a \notin Range(sel))
                  => t \in Range(sel)

\* C24: once the no-action children and the referencing tables of a table
\* and of its descendants are all completed, the table is deletable and the
\* tick selects it, unless it or an ancestor is deleting, completed or
\* selected; with B a no-action child of A, or B referencing A, the
\* selection is B first and A once B is completed.
C24_DeletableOnceUnblocked ==
    /\ (pc = "test" /\ call.fn = "findDeletableTables" /\ call.returned
           /\ ~call.ret.panic) =>
          /\ selectedWhenUnblocked(schemas, status, call.ret.deletable)
          /\ (scenario \in {2, 3} /\ ~skipped(status, "A") /\ ~skipped(status, "B"))
                => call.ret.deletable = <<"B">>
          /\ (scenario \in {2, 3} /\ ~skipped(status, "A")
                 /\ status["B"] = statusCompleted)
                => call.ret.deletable = <<"A">>
    /\ (Alive /\ coord = "loop"
           /\ ~findDeletableTables(schemas, status, Roots(schemas)).panic)
          => selectedWhenUnblocked(schemas, status, found)

\* In a run, B was selected and is completed, and the tick now selects A.
C24_Witness ==
    /\ Alive /\ coord = "loop" /\ scenario \in {2, 3}
    /\ rows["A"] > 0 /\ totalRows["B"] > 0
    /\ status["B"] = statusCompleted
    /\ found = <<"A">>

\* C25: a table that is deletable when a tick can fire is deletable
\* whenever a tick can fire later in the run.
C25_DeletableIsStable ==
    [][(Alive /\ coord = "loop" /\ Alive' /\ coord' = "loop") =>
          \A t \in NamesOf(schemas) :
              isDeletable(schemas, status, t) = "true"
                  => isDeletable(schemas', status', t) = "true"]_vars

\* The changes of status the state machine of the deleter allows.
Transitions ==
    {<<statusAnalyzing, statusWaiting>>,
     <<statusWaiting, statusDeleting>>,
     <<statusWaiting, statusCascadeDeleting>>,
     <<statusDeleting, statusCompleted>>,
     <<statusCascadeDeleting, statusCompleted>>}

\* C26: over a run every change of the status of a table is one of
\* Analyzing -> Waiting, Waiting -> Deleting, Waiting -> CascadeDeleting,
\* Deleting -> Completed, CascadeDeleting -> Completed.
C26_StatusStateMachine ==
    [][pc # "test" =>
          \A t \in Names :
              status'[t] # status[t] => <<status[t], status'[t]>> \in Transitions]_vars

(***************************************************************************)
(* What a tick launches and marks.                                         *)
(***************************************************************************)
\* C27: every goroutine a tick spawned runs deleteRows on the table of its
\* own iteration, so the tables a tick selected are each deleted by one
\* goroutine and all become deleting.
C27_LaunchedOncePerTick ==
    \A task \in Started : task.table = task.sel[task.idx]

\* The tables below a table of the selection sel.
marked(ss, sel) == UNION {descendants(ss, sel[i]) : i \in 1..Len(sel)}

\* A step of the coordinator's tick that selected a table: the only step
\* that adds goroutines.
tickSelected == BagCardinality(tasks') > BagCardinality(tasks)

\* C28: the tick that selects tables sets every table below one of them, at
\* any depth, to cascade deleting and changes no other status; and no other
\* step sets a table to cascade deleting.
C28_CascadeMarking ==
    [][/\ tickSelected =>
             \A t \in Names :
                 status'[t] = IF t \in marked(schemas, found)
                              THEN statusCascadeDeleting ELSE status[t]
       /\ \A t \in Names :
             (status'[t] = statusCascadeDeleting /\ status[t] # statusCascadeDeleting)
                 => (tickSelected /\ t \in marked(schemas, found))]_vars

C28_Witness ==
    /\ scenario = 10 /\ Alive
    /\ status["B"] = statusCascadeDeleting /\ status["C"] = statusCascadeDeleting
    /\ \E task \in TaskSet : task.sel = <<"A">> /\ task.at = "spawned"

\* C29: no deleteRows is started on a table while a deleteRows on a table
\* above it in the tree is in flight, and no tick selects a table together
\* with a table below it.
C29_NoDeleteUnderAncestor ==
    [][/\ \A t \in Names :
             inFlight(t)' > inFlight(t)
                 => \A a \in ancestors(schemas, t) : inFlight(a) = 0
       /\ (Alive /\ coord = "loop"
              /\ ~findDeletableTables(schemas, status, Roots(schemas)).panic)
             => \A i, j \in 1..Len(found) :
                    found[j] \notin descendants(schemas, found[i])]_vars

\* C30: on a database whose interleave and reference edges form no cycle the
\* tick never reports a stall.
C30_NoFalseStall ==
    (pc # "test" /\ acyclic(db)) =>
        coord # "sendStall" /\ pc # "errStall"

(***************************************************************************)
(* The row-count sampler.                                                  *)
(***************************************************************************)
\* The step of the sampler of t that observed no row in t: a turn of the
\* loop of startRowCountUpdater in a run, the last write of updateRowCount
\* in the test of the deleter.
sampledZero(t) ==
    \/ UpdateRowCount(t) /\ rows[t] = 0
    \/ /\ TestSetStatus /\ t = Probe
       /\ call.counts[call.next] = 0

\* C31: the status of a table becomes completed only in the step of its
\* sampler that observed a count of zero for that table; neither the return
\* of deleteRows nor the coordinator sets it.
C31_CompletedSingleCause ==
    [][\A t \in Names :
          (status'[t] = statusCompleted /\ status[t] # statusCompleted)
              => sampledZero(t)]_vars

C31_Witness ==
    /\ Alive
    /\ \E t \in Names :
          /\ status[t] = statusCompleted
          /\ totalRows[t] > 0 /\ remainedRows[t] = 0
          /\ inFlight(t) = 0

\* C32: once totalRows of a table is not zero no step changes it, and the
\* sample of a table whose query succeeded sets remainedRows to the count
\* it observed.
C32_TotalRowsFrozen ==
    [][\A t \in Names :
          /\ totalRows[t] # 0 => totalRows'[t] = totalRows[t]
          /\ UpdateRowCount(t) => remainedRows'[t] = rows[t]
          /\ (TestSetRemainedRows /\ t = Probe)
                => remainedRows'[t] = call.counts[call.next]]_vars

C32_Witness ==
    /\ pc = "test" /\ call.fn = "updateRowCount"
    /\ call.next = 3 /\ call.at = "query"
    /\ remainedRows[Probe] > 0
    /\ totalRows[Probe] > remainedRows[Probe]

\* The step of the sampler of t whose query failed.
queryFailed(t) == updater[t] = "on" /\ updater'[t] = "failed"

\* C33: the turn of a sampler whose query fails leaves the status, totalRows
\* and remainedRows of its table as they were and sends nothing to
\* waitCompleted, which returns an error only to a sender of the
\* coordinator or of a deleteRows goroutine; after it the sampler does
\* nothing but start its next turn, with a table that is not completed.
C33_SamplingErrorsSwallowed ==
    [][/\ \A t \in Names :
             /\ queryFailed(t) =>
                   /\ status'[t] = status[t]
                   /\ totalRows'[t] = totalRows[t]
                   /\ remainedRows'[t] = remainedRows[t]
                   /\ pc' = pc /\ coord' = coord /\ tasks' = tasks
             /\ updater[t] = "failed" =>
                   /\ status[t] # statusCompleted
                   /\ updater'[t] \in {"failed", "on"}
       /\ (pc = "wait" /\ pc' \in {"errStall", "errCtx", "errDelete"})
             => \/ coord \in {"sendStall", "sendCtx"}
                \/ \E task \in TaskSet : task.at = "sendErr"]_vars

C33_Witness ==
    /\ Alive
    /\ \E t \in Names :
          /\ updater[t] = "failed"
          /\ status[t] = statusDeleting /\ totalRows[t] > 0
          /\ inFlight(t) > 0

(***************************************************************************)
(* The graph newCoordinator builds.                                        *)
(***************************************************************************)
\* The parent of each table of the list whose parent is in the list.
parentEdges(ss) ==
    {<<ss[i].parentTableName, ss[i].tableName>> :
        i \in {j \in 1..Len(ss) : ss[j].parentTableName \in NamesOf(ss)}}

parentsAcyclic(ss) == \A t \in NamesOf(ss) : ~onCycle(parentEdges(ss), t)

\* The place of the table t in the descriptor list.
indexOf(ss, t) == CHOOSE i \in 1..Len(ss) : ss[i].tableName = t

\* C34: the forest newCoordinator builds from a list without parent cycles
\* holds each table of the list once; a table whose parent is in the list
\* is a child of that parent and of no other table, the children of a
\* table are in the order of the list, and a table whose parent is empty
\* or not in the list is a root.
C34_ForestWellFormed ==
    (coord # "off" /\ parentsAcyclic(schemas)) =>
        LET flat == flattenTables(schemas, Roots(schemas))
        IN /\ Len(flat) = Len(schemas)
           /\ Range(flat) = NamesOf(schemas)
           /\ \A i \in 1..Len(schemas) :
                 LET s == schemas[i]
                 IN IF s.parentTableName \in NamesOf(schemas)
                    THEN \A p \in NamesOf(schemas) :
                            s.tableName \in Range(childTables(schemas, p))
                                <=> p = s.parentTableName
                    ELSE s.tableName \in Range(Roots(schemas))
           /\ \A p \in NamesOf(schemas) :
                 LET cs == childTables(schemas, p)
                 IN \A a, b \in 1..Len(cs) :
                       a < b => indexOf(schemas, cs[a]) < indexOf(schemas, cs[b])

\* C35: in the graph newCoordinator builds, the referencedBy of a table
\* holds the node of a referencing name exactly when that name is in the
\* descriptor list; a name that is not in the list adds no entry, and no
\* evaluation of isDeletable fails.
C35_ReferencedByInGraph ==
    /\ coord # "off" =>
          \A t \in NamesOf(schemas) :
              LET refs == Range(referencedBy(schemas, t))
              IN /\ NilTable \notin refs
                 /\ \A r \in Range(schemaOf(schemas, t).referencedBy) :
                       r \in refs <=> r \in NamesOf(schemas)
    /\ pc # "panic"

\* The index information of the node newCoordinator builds for a table:
\* newCoordinator is handed the descriptor list and the client, no index
\* list, and the table struct it fills has no field for a global index.
tableHasGlobalIndex(ss, t) == FALSE

\* C36: the node of a table in the graph has hasGlobalIndex set exactly when
\* some index has the table as its base table and no interleave parent: an
\* index interleaved in a table does not set it, and a global index on a
\* child sets it on the child and not on its parent.
C36_HasGlobalIndexSet ==
    coord # "off" =>
        \A t \in NamesOf(schemas) :
            tableHasGlobalIndex(schemas, t) <=> hasGlobalIndex(t)

(***************************************************************************)
(* Global indexes and the selection.                                       *)
(***************************************************************************)
\* Whether nothing below t blocks t: t's subtree has no no-action child and
\* no referencing table that is not completed, and no table below t has a
\* global index and is not completed.
childrenClear(ss, st, t) ==
    /\ unblocked(ss, st, t)
    /\ \A c \in descendants(ss, t) :
          hasGlobalIndex(c) => st[c] = statusCompleted

\* With the statuses st and the selection sel: a table with a global index
\* of its own and nothing blocking below it is deletable, and when the walk
\* reaches it, it is selected and no table below it is.
ownIndexNoBlocker(ss, st, sel) ==
    \A t \in Range(flattenTables(ss, Roots(ss))) :
        (hasGlobalIndex(t) /\ childrenClear(ss, st, t)) =>
            /\ isDeletable(ss, st, t) = "true"
            /\ (/\ ~skipped(st, t)
                /\ \A a \in ancestors(ss, t) :
                      ~skipped(st, a) /\ a \notin Range(sel))
                  => /\ t \in Range(sel)
                     /\ descendants(ss, t) \cap Range(sel) = {}

\* C37: a table that has a global index and whose children have no blocker
\* is deletable, and findDeletableTables selects it and none of its
\* children, as for a table without a global index; in a test call on any
\* statuses and at every tick of a run.
C37_OwnGlobalIndexNoBlock ==
    /\ (pc = "test" /\ call.fn = "findDeletableTables" /\ call.returned
           /\ ~call.ret.panic)
          => ownIndexNoBlocker(schemas, status, call.ret.deletable)
    /\ (Alive /\ coord = "loop"
           /\ ~findDeletableTables(schemas, status, Roots(schemas)).panic)
          => ownIndexNoBlocker(schemas, status, found)

\* The parent has a global index, the child is not completed: the parent is
\* what the call returns.
C37_Witness ==
    /\ pc = "test" /\ call.fn = "findDeletableTables" /\ call.returned
    /\ scenario = 17
    /\ hasGlobalIndex("A") /\ ~hasGlobalIndex("B")
    /\ status["A"] = statusWaiting /\ status["B"] = statusWaiting
    /\ call.ret.deletable = <<"A">>

(***************************************************************************)
(* The order of start.                                                     *)
(***************************************************************************)
\* The tables of the graph, as start walks them.
graph == flattenTables(schemas, Roots(schemas))

\* Before the loop of start is entered nothing is selected and no sampler
\* runs; once it is entered the sampler of every table of the graph has
\* been started.
startedBeforeTicks ==
    pc # "test" =>
        /\ coord \in {"off", "init"} =>
              /\ tasks = EmptyBag
              /\ \A t \in Names :
                    updater[t] = "off" /\ status[t] = statusAnalyzing
        /\ coord \notin {"off", "init"} =>
              \A t \in Range(graph) : updater[t] # "off"

RECURSIVE withoutCommas(_)
withoutCommas(s) ==
    IF s = <<>> THEN <<>>
    ELSE (IF Head(s) = "," THEN <<>> ELSE <<Head(s)>>) \o withoutCommas(Tail(s))

\* The number a string of decimal digits stands for.
RECURSIVE valueOf(_)
valueOf(s) ==
    IF s = <<>> THEN 0
    ELSE valueOf(SubSeq(s, 1, Len(s) - 1)) * 10
            + (CHOOSE d \in 0..9 : Digits[d + 1] = s[Len(s)])

\* Whether the commas of s are where the number of characters to their
\* right, commas counted, is a multiple of four less one: between each
\* group of three digits counted from the right, and nowhere else.
commasEveryThree(s) ==
    \A i \in 1..Len(s) :
        s[i] = "," <=> (i < Len(s) /\ i > 1 /\ (Len(s) - i + 1) % 4 = 0)

\* C39: formatNumber(n) is the decimal digits of n with a comma between each
\* group of three digits counted from the right, without a leading zero or
\* comma; without the commas it is the decimal representation of n
\* (0 -> "0", 1234 -> "1,234", 1234567890 -> "1,234,567,890").
C39_FormatNumber ==
    (pc = "test" /\ call.fn = "formatNumber" /\ call.returned) =>
        LET n == call.input
            s == call.ret
        IN /\ \A i \in 1..Len(s) : s[i] \in Range(Digits) \cup {","}
           /\ commasEveryThree(s)
           /\ s[1] # ","
           /\ s[1] = "0" => n = 0
           /\ withoutCommas(s) = Sprintf_d(n)
           /\ valueOf(withoutCommas(s)) = n
           /\ n = 0 => s = <<"0">>
           /\ n = 1234 => s = <<"1", ",", "2", "3", "4">>
           /\ n = 1234567890
                 => s = <<"1", ",", "2", "3", "4", ",", "5", "6", "7", ",",
                          "8", "9", "0">>

\* A number with a group of zeros in the middle has been formatted.
C39_Witness ==
    /\ pc = "test" /\ call.fn = "formatNumber" /\ call.returned
    /\ call.input = 1000007
    /\ call.ret = <<"1", ",", "0", "0", "0", ",", "0", "0", "7">>

====
